---- MODULE Spec2Model ----
(***************************************************************************)
(* Model of the command layer of dimppl-desktop (src-tauri/src/commands.rs) *)
(* and of the collaborators it drives: the detached import, download and   *)
(* sync tasks, the Change Bus (send_invalidate_cache), the terminal         *)
(* notifications (emit_all), the Player and the Config store.              *)
(* The subsystems share no state except the Change Bus log and the         *)
(* notification log, so each one is explored under its own specification. *)
(***************************************************************************)
EXTENDS Integers, Naturals, Sequences, FiniteSets, TLC

\* ---------------------------------------------------------------- bounds
MaxImports == 2
MaxDownloads == 2
MaxSyncs == 1
MaxMcCalls == 3

\* ---------------------------------------------------------------- domains
ImportIds == 1..MaxImports
PodcastIds == {1, 2}
EpisodeIds == {1, 2}
SyncIds == 1..MaxSyncs
DlTasks == 1..MaxDownloads

VARIABLES
  events,      \* Change Bus: the send_invalidate_cache calls of each producing
               \* task, in its call order, as <<change, entity id>> (the spec
               \* orders events per producer only)
  notes,       \* the app.emit_all terminal notifications of each task, in order
  importPc, importRes, importPod, nextImport,
  dlState, dlTracker, dlEp, dlPc, dlRes, dlPre, dlPolicy, nextDl,
  syncPc, syncPods, syncIdx, nextSync,
  pStatus, pEpisode, pPos, chains, pLock, script, cmdIdx, threads, db, cmdRes,
  mainWindow, mcRegs, mcCalls,
  cfg, playerVolume, cpc, carg, clocal, cres, cfgLock, upOld, lastRead, readDone, committed, lastWriter

busVars == <<events, notes>>

\* The tasks that call send_invalidate_cache and app.emit_all.
Producers ==
  {<<"import", i>> : i \in ImportIds} \cup {<<"download", t>> : t \in DlTasks}
    \cup {<<"sync", s>> : s \in SyncIds}

\* app.send_invalidate_cache(change) from task prod.
Publish(log, prod, change) == [log EXCEPT ![prod] = Append(@, change)]
importVars == <<importPc, importRes, importPod, nextImport>>
dlVars == <<dlState, dlTracker, dlEp, dlPc, dlRes, dlPre, dlPolicy, nextDl>>
syncVars == <<syncPc, syncPods, syncIdx, nextSync>>
mcVars == <<mainWindow, mcRegs, mcCalls>>
playerVars == <<pStatus, pEpisode, pPos, chains, pLock, script, cmdIdx, threads, db, cmdRes, mcVars>>
cfgVars == <<cfg, playerVolume, cpc, carg, clocal, cres, cfgLock, upOld, lastRead, readDone, committed, lastWriter>>
vars == <<busVars, importVars, dlVars, syncVars, playerVars, cfgVars>>

(***************************************************************************)
(* import_podcast / do_import_podcast                                      *)
(***************************************************************************)
InitImport ==
  /\ importPc = [i \in ImportIds |-> "unused"]
  /\ importRes = [i \in ImportIds |-> "none"]
  /\ importPod = [i \in ImportIds |-> 0]
  /\ nextImport = 0

\* import_podcast(url): a fresh Uuid, the detached task is spawned and the
\* identifier is returned at once (Ok(import_id)).
ImportPodcast ==
  /\ nextImport < MaxImports
  /\ nextImport' = nextImport + 1
  /\ importPc' = [importPc EXCEPT ![nextImport + 1] = "running"]
  /\ UNCHANGED <<importRes, importPod, busVars, dlVars, syncVars, playerVars, cfgVars>>

\* do_import_podcast(url, app): import_podcast_from_url(..).await? then
\* send_invalidate_cache(Podcast(podcast.id))?.
DoImportPodcast(i) ==
  /\ importPc[i] = "running"
  /\ \/ /\ importRes' = [importRes EXCEPT ![i] = "err_import"]
        /\ UNCHANGED <<events, importPod>>
     \/ \E pid \in PodcastIds :
          /\ importPod' = [importPod EXCEPT ![i] = pid]
          /\ events' = Publish(events, <<"import", i>>, <<"Podcast", pid>>)
          /\ \E busOk \in BOOLEAN :
               importRes' = [importRes EXCEPT ![i] = IF busOk THEN "ok" ELSE "err_bus"]
  /\ importPc' = [importPc EXCEPT ![i] = "imported"]
  /\ UNCHANGED <<notes, nextImport, dlVars, syncVars, playerVars, cfgVars>>

ImportTerminalDropsError(res, i) ==
  IF res = "ok" THEN << <<"import-podcast-done", i>> >> ELSE <<>>

\* The match on the result in the spawned task: one emit_all per outcome.
ImportTerminal(res, i) ==
  IF res = "ok" THEN << <<"import-podcast-done", i>> >>
  ELSE << <<"import-podcast-error", i>> >>

ImportEmit(i) ==
  /\ importPc[i] = "imported"
  /\ notes' = [notes EXCEPT ![<<"import", i>>] = @ \o ImportTerminal(importRes[i], i)]
  /\ importPc' = [importPc EXCEPT ![i] = "finished"]
  /\ UNCHANGED <<events, importRes, importPod, nextImport, dlVars, syncVars, playerVars, cfgVars>>

NextImport ==
  \/ ImportPodcast
  \/ \E i \in ImportIds : DoImportPodcast(i)
  \/ \E i \in ImportIds : ImportEmit(i)

(***************************************************************************)
(* download_episode / do_download_episode / episode::start_download        *)
(* Every call spawns its own task (slot t of DlTasks) for episode dlEp[t]; *)
(* tasks of the same episode may overlap. The episode's persisted download *)
(* state and its tracker entry are shared by all tasks of that episode.    *)
(* start_download is not in this source: it follows its contract, which   *)
(* starts a transfer only for a not-downloaded episode and handles a start *)
(* for an episode already downloading by a fixed policy, reject or         *)
(* coalesce (dlPolicy, either one).                                        *)
(***************************************************************************)

\* download_episode(id): tokio::spawn(do_download_episode(..)); Ok(()).
\* The JoinHandle, and with it the task's AppResult, is dropped.
DownloadEpisode(e) ==
  /\ nextDl < MaxDownloads
  /\ nextDl' = nextDl + 1
  /\ dlEp' = [dlEp EXCEPT ![nextDl + 1] = e]
  /\ dlPc' = [dlPc EXCEPT ![nextDl + 1] = "spawned"]
  /\ UNCHANGED <<dlState, dlTracker, dlRes, dlPre, dlPolicy, busVars, importVars, syncVars, playerVars, cfgVars>>

\* The `?` on start_download: an error returns at once, before the publish.
AfterStart(ok) == IF ok THEN "publish" ELSE "ended"

\* do_download_episode's program point and result once start_download has
\* returned ok or an error.
StartReturned(t, ok) ==
  /\ dlPc' = [dlPc EXCEPT ![t] = AfterStart(ok)]
  /\ dlRes' = [dlRes EXCEPT ![t] = IF AfterStart(ok) = "ended" THEN "err_start" ELSE "none"]

\* episode::start_download, on entry (dlPre records the pre-download value).
\* Not downloaded: the transfer starts, the episode is marked downloading and
\* its tracker entry made active. Already downloading: rejected with an
\* already-in-progress error, or coalesced (the call waits for the transfer in
\* flight). Already downloaded: the state is left alone (downloaded is
\* terminal) and the call returns either way.
StartDownloadBegin(t) ==
  /\ dlPc[t] = "spawned"
  /\ dlPre' = [dlPre EXCEPT ![t] = dlState[dlEp[t]]]
  /\ CASE dlState[dlEp[t]] = "not_downloaded" ->
            /\ dlState' = [dlState EXCEPT ![dlEp[t]] = "downloading"]
            /\ dlTracker' = [dlTracker EXCEPT ![dlEp[t]] = "active"]
            /\ dlPc' = [dlPc EXCEPT ![t] = "transferring"]
            /\ UNCHANGED dlRes
       [] dlState[dlEp[t]] = "downloading" /\ dlPolicy = "reject" ->
            /\ StartReturned(t, FALSE)
            /\ UNCHANGED <<dlState, dlTracker>>
       [] dlState[dlEp[t]] = "downloading" /\ dlPolicy = "coalesce" ->
            /\ dlPc' = [dlPc EXCEPT ![t] = "coalesced"]
            /\ UNCHANGED <<dlState, dlTracker, dlRes>>
       [] dlState[dlEp[t]] = "downloaded" ->
            /\ \E ok \in BOOLEAN : StartReturned(t, ok)
            /\ UNCHANGED <<dlState, dlTracker>>
  /\ UNCHANGED <<dlEp, dlPolicy, nextDl, busVars, importVars, syncVars, playerVars, cfgVars>>

\* episode::start_download, coalesced call: returns with the outcome of the
\* transfer it joined once that transfer is over.
StartDownloadJoin(t) ==
  /\ dlPc[t] = "coalesced"
  /\ dlState[dlEp[t]] # "downloading"
  /\ StartReturned(t, dlState[dlEp[t]] = "downloaded")
  /\ UNCHANGED <<dlState, dlTracker, dlEp, dlPre, dlPolicy, nextDl, busVars, importVars, syncVars, playerVars, cfgVars>>

\* episode::start_download, end of the transfer: success marks the episode
\* downloaded and the tracker entry finished; failure marks it not-downloaded
\* and the entry failed. Then do_download_episode continues per AfterStart.
StartDownloadEnd(t) ==
  /\ dlPc[t] = "transferring"
  /\ \E ok \in BOOLEAN :
       /\ dlState' = [dlState EXCEPT ![dlEp[t]] = IF ok THEN "downloaded" ELSE "not_downloaded"]
       /\ dlTracker' = [dlTracker EXCEPT ![dlEp[t]] = IF ok THEN "finished" ELSE "failed"]
       /\ StartReturned(t, ok)
  /\ UNCHANGED <<dlEp, dlPre, dlPolicy, nextDl, busVars, importVars, syncVars, playerVars, cfgVars>>

\* app.send_invalidate_cache(EntityChange::Episode(id))?; Ok(()). The result of
\* the task goes nowhere: no notification is emitted either way, and nothing
\* is undone when the publish fails.
PublishEpisode(t) ==
  /\ dlPc[t] = "publish"
  /\ events' = Publish(events, <<"download", t>>, <<"Episode", dlEp[t]>>)
  /\ \E busOk \in BOOLEAN :
       dlRes' = [dlRes EXCEPT ![t] = IF busOk THEN "ok" ELSE "err_bus"]
  /\ dlPc' = [dlPc EXCEPT ![t] = "ended"]
  /\ UNCHANGED <<dlState, dlTracker, dlEp, dlPre, dlPolicy, nextDl, notes, importVars, syncVars, playerVars, cfgVars>>

NextDownload ==
  \/ \E e \in EpisodeIds : DownloadEpisode(e)
  \/ \E t \in DlTasks :
       \/ StartDownloadBegin(t)
       \/ StartDownloadJoin(t)
       \/ StartDownloadEnd(t)
       \/ PublishEpisode(t)

(***************************************************************************)
(* sync_podcasts: the spawned task. Every `.unwrap()` on an Err panics,    *)
(* which ends the task ("panicked") and skips the rest of its body.        *)
(***************************************************************************)

\* Podcast lists podcast::list_all can return (ids in list order).
PodcastLists == {<<>>, <<1>>, <<1, 2>>}

\* sync_podcasts(app): tokio::spawn(..); Ok(()).
SyncPodcasts ==
  /\ nextSync < MaxSyncs
  /\ nextSync' = nextSync + 1
  /\ syncPc' = [syncPc EXCEPT ![nextSync + 1] = "sync"]
  /\ UNCHANGED <<syncPods, syncIdx, busVars, importVars, dlVars, playerVars, cfgVars>>

\* The outcome of `r.unwrap()` as the next program point.
Unwrap(ok, next) == IF ok THEN next ELSE "panicked"

\* podcast::sync_podcasts(&mut connection).await.unwrap()
SyncRun(s) ==
  /\ syncPc[s] = "sync"
  /\ \E ok \in BOOLEAN : syncPc' = [syncPc EXCEPT ![s] = Unwrap(ok, "list")]
  /\ UNCHANGED <<syncPods, syncIdx, nextSync, busVars, importVars, dlVars, playerVars, cfgVars>>

\* let podcasts = podcast::list_all(&mut connection).unwrap()
SyncList(s) ==
  /\ syncPc[s] = "list"
  /\ \E ok \in BOOLEAN, pods \in PodcastLists :
       /\ syncPc' = [syncPc EXCEPT ![s] = Unwrap(ok, "pub_all")]
       /\ syncPods' = [syncPods EXCEPT ![s] = IF ok THEN pods ELSE <<>>]
  /\ UNCHANGED <<syncIdx, nextSync, busVars, importVars, dlVars, playerVars, cfgVars>>

\* app.send_invalidate_cache(EntityChange::AllPodcasts).unwrap()
SyncPublishAll(s) ==
  /\ syncPc[s] = "pub_all"
  /\ events' = Publish(events, <<"sync", s>>, <<"AllPodcasts", 0>>)
  /\ syncIdx' = [syncIdx EXCEPT ![s] = 1]
  /\ \E ok \in BOOLEAN :
       syncPc' = [syncPc EXCEPT ![s] =
                    Unwrap(ok, IF Len(syncPods[s]) = 0 THEN "emit" ELSE "pub_pod")]
  /\ UNCHANGED <<notes, syncPods, nextSync, importVars, dlVars, playerVars, cfgVars>>

\* loop body, first call: send_invalidate_cache(Podcast(podcast.id)).unwrap()
SyncPublishPodcast(s) ==
  /\ syncPc[s] = "pub_pod"
  /\ events' = Publish(events, <<"sync", s>>, <<"Podcast", syncPods[s][syncIdx[s]]>>)
  /\ \E ok \in BOOLEAN : syncPc' = [syncPc EXCEPT ![s] = Unwrap(ok, "pub_eps")]
  /\ UNCHANGED <<notes, syncPods, syncIdx, nextSync, importVars, dlVars, playerVars, cfgVars>>

AfterEpisodesStopsLoop(s) == "emit"

\* `for podcast in &podcasts`: the next podcast, or past the loop.
AfterEpisodes(s) == IF syncIdx[s] < Len(syncPods[s]) THEN "pub_pod" ELSE "emit"

\* loop body, second call: send_invalidate_cache(PodcastEpisodes(podcast.id))
\* .unwrap(), then the next podcast or the end of the loop.
SyncPublishEpisodes(s) ==
  /\ syncPc[s] = "pub_eps"
  /\ events' = Publish(events, <<"sync", s>>, <<"PodcastEpisodes", syncPods[s][syncIdx[s]]>>)
  /\ \E ok \in BOOLEAN :
       syncPc' = [syncPc EXCEPT ![s] = Unwrap(ok, AfterEpisodes(s))]
  /\ syncIdx' = [syncIdx EXCEPT ![s] = @ + 1]
  /\ UNCHANGED <<notes, syncPods, nextSync, importVars, dlVars, playerVars, cfgVars>>

\* let _ = app.emit_all("sync-podcasts-done", ()): its error is ignored. The
\* payload is (); the task index is the model's own tag.
SyncEmit(s) ==
  /\ syncPc[s] = "emit"
  /\ notes' = [notes EXCEPT ![<<"sync", s>>] = Append(@, <<"sync-podcasts-done", s>>)]
  /\ syncPc' = [syncPc EXCEPT ![s] = "done"]
  /\ UNCHANGED <<events, syncPods, syncIdx, nextSync, importVars, dlVars, playerVars, cfgVars>>

NextSync ==
  \/ SyncPodcasts
  \/ \E s \in SyncIds :
       \/ SyncRun(s)
       \/ SyncList(s)
       \/ SyncPublishAll(s)
       \/ SyncPublishPodcast(s)
       \/ SyncPublishEpisodes(s)
       \/ SyncEmit(s)

(***************************************************************************)
(* Player commands: play_episode, player_action, seek. The Player itself   *)
(* (crate::player) is not in the source; its state machine follows the    *)
(* spec: it serializes its own mutation under one lock, and play_episode   *)
(* tears down the current decode/output chain before building the new one. *)
(* Playback time does not advance in this model.                           *)
(***************************************************************************)
Duration == 300
SkipSeconds == 30

Cmd(c, ep, act, to) == [cmd |-> c, ep |-> ep, act |-> act, to |-> to]

\* play_episode(42) with no stored progress, pause, seek(120), play.
PauseSeekScript ==
  << Cmd("play_episode", 42, "", 0), Cmd("player_action", 0, "pause", 0),
     Cmd("seek", 0, "", 120), Cmd("player_action", 0, "play", 0) >>

\* Three play_episode commands in a row.
PlaysScript ==
  << Cmd("play_episode", 1, "", 0), Cmd("play_episode", 2, "", 0),
     Cmd("play_episode", 42, "", 0) >>

\* play_episode(1) then play_episode(2), with any outcome of the lookups.
DbScript ==
  << Cmd("play_episode", 1, "", 0), Cmd("play_episode", 2, "", 0) >>

Scripts == {PauseSeekScript, PlaysScript, DbScript}
DbEpisodes == {1, 2, 42}
ThreadIds == 1..4

\* episode::find_one_progress for the episodes of the scripts.
ProgressOf(ep) ==
  IF ep = 1 THEN [completed |-> TRUE, listened |-> 200]
  ELSE IF ep = 2 THEN [completed |-> FALSE, listened |-> 60]
  ELSE [completed |-> FALSE, listened |-> 0]

\* `x as u64` for a signed integer x: two's-complement reinterpretation.
AsU64(x) == IF x >= 0 THEN x ELSE 2^64 + x

StartSecondsIgnoresCompleted(progress) == AsU64(progress.listened)

\* play_episode: start_seconds from the stored progress
\* (progress.listened_seconds as u64 when not completed).
StartSeconds(progress) ==
  IF progress.completed THEN 0 ELSE AsU64(progress.listened)

\* What episode::find_one and episode::find_one_progress return: whether the
\* episode and its progress row exist, and the progress. The scenario scripts
\* use the fixed progress of ProgressOf; DbScript any outcome.
DbRecord(found, hasProgress, completed, listened) ==
  [episode |-> found, progress |-> hasProgress, completed |-> completed, listened |-> listened]

DbStates(scr) ==
  IF scr = DbScript
  THEN {d \in [DbEpisodes -> {DbRecord(f, h, c, l) : f \in BOOLEAN, h \in BOOLEAN,
                                                     c \in BOOLEAN, l \in {0, 60}}] :
          d[42] = DbRecord(TRUE, TRUE, FALSE, 0)}
  ELSE {[ep \in DbEpisodes |->
           DbRecord(TRUE, TRUE, ProgressOf(ep).completed, ProgressOf(ep).listened)]}

ClampPos(x) == IF x < 0 THEN 0 ELSE IF x > Duration THEN Duration ELSE x

NoThread == [op |-> "none", ep |-> 0, at |-> 0, pc |-> "none"]

InitPlayer ==
  /\ pStatus = "Stopped"
  /\ pEpisode = 0
  /\ pPos = 0
  /\ chains = 0
  /\ pLock = 0
  /\ script \in Scripts
  /\ cmdIdx = 1
  /\ threads = [t \in ThreadIds |-> NoThread]
  /\ db \in DbStates(script)
  /\ cmdRes = [t \in ThreadIds |-> "none"]
  /\ mainWindow = TRUE
  /\ mcRegs = 0
  /\ mcCalls = 0

\* The command at cmdIdx is invoked. play_episode and player_action spawn an
\* OS thread and return; seek calls player.seek_to(to) in the command itself.
IssueCommand ==
  /\ cmdIdx <= Len(script)
  /\ LET c == script[cmdIdx] IN
       \/ /\ c.cmd = "play_episode"
          \* find_one(id)?; find_one_progress(id)?; then the thread is spawned.
          /\ IF db[c.ep].episode /\ db[c.ep].progress
             THEN /\ threads' = [threads EXCEPT ![cmdIdx] =
                        [op |-> "play_episode", ep |-> c.ep,
                         at |-> StartSeconds(db[c.ep]), pc |-> "ready"]]
                  /\ cmdRes' = [cmdRes EXCEPT ![cmdIdx] = "ok"]
             ELSE /\ cmdRes' = [cmdRes EXCEPT ![cmdIdx] = "err"]
                  /\ UNCHANGED threads
          /\ UNCHANGED <<pStatus, pEpisode, pPos, chains, pLock>>
       \/ /\ c.cmd = "player_action"
          /\ threads' = [threads EXCEPT ![cmdIdx] =
                [op |-> c.act, ep |-> 0, at |-> 0, pc |-> "ready"]]
          /\ cmdRes' = [cmdRes EXCEPT ![cmdIdx] = "ok"]
          /\ UNCHANGED <<pStatus, pEpisode, pPos, chains, pLock>>
       \/ /\ c.cmd = "seek"
          /\ pLock = 0
          /\ pPos' = IF pStatus \in {"Playing", "Paused"} THEN ClampPos(c.to) ELSE pPos
          /\ cmdRes' = [cmdRes EXCEPT ![cmdIdx] = "ok"]
          /\ UNCHANGED <<pStatus, pEpisode, chains, pLock, threads>>
  /\ cmdIdx' = cmdIdx + 1
  /\ UNCHANGED <<script, db, mcVars, busVars, importVars, dlVars, syncVars, cfgVars>>

\* Player::play_episode teardown of the live chain.
StopChainKeeps(n) == n

StopChain(n) == IF n > 0 THEN n - 1 ELSE 0

\* Player::play_episode, first half under the player's lock: stop playback.
PlayerStop(t) ==
  /\ threads[t].pc = "ready" /\ threads[t].op = "play_episode"
  /\ pLock = 0
  /\ pLock' = t
  /\ chains' = StopChain(chains)
  /\ pStatus' = "Stopped"
  /\ threads' = [threads EXCEPT ![t].pc = "stopped"]
  /\ UNCHANGED <<pEpisode, pPos, script, cmdIdx, db, cmdRes, mcVars, busVars, importVars, dlVars, syncVars, cfgVars>>

\* Player::play_episode, second half: new chain at start_seconds, Playing.
PlayerStart(t) ==
  /\ threads[t].pc = "stopped"
  /\ pLock = t
  /\ pLock' = 0
  /\ chains' = chains + 1
  /\ pStatus' = "Playing"
  /\ pEpisode' = threads[t].ep
  /\ pPos' = ClampPos(threads[t].at)
  /\ threads' = [threads EXCEPT ![t].pc = "done"]
  /\ UNCHANGED <<script, cmdIdx, db, cmdRes, mcVars, busVars, importVars, dlVars, syncVars, cfgVars>>

\* A player_action thread: play / pause / skip_forwards / skip_backwards.
PlayerAction(t) ==
  /\ threads[t].pc = "ready" /\ threads[t].op # "play_episode"
  /\ pLock = 0
  /\ LET op == threads[t].op IN
       /\ pStatus' = CASE op = "play" /\ pStatus = "Paused" -> "Playing"
                        [] op = "pause" /\ pStatus = "Playing" -> "Paused"
                        [] OTHER -> pStatus
       /\ pPos' = CASE pStatus = "Stopped" -> pPos
                     [] op = "skip_forwards" -> ClampPos(pPos + SkipSeconds)
                     [] op = "skip_backwards" -> ClampPos(pPos - SkipSeconds)
                     [] OTHER -> pPos
  /\ threads' = [threads EXCEPT ![t].pc = "done"]
  /\ UNCHANGED <<pEpisode, chains, pLock, script, cmdIdx, db, cmdRes, mcVars, busVars, importVars, dlVars, syncVars, cfgVars>>

\* Player::set_up_media_controls: the spec's registration, which replaces any
\* earlier one.
PlayerSetUpMediaControls(regs) == 1

\* `if let Some(window) = app.get_window("main")`.
MediaControlsGuard(hasMain) == hasMain

\* set_up_media_controls(app, player): with a "main" window the player
\* registers (handle None off Windows); without one nothing happens. Ok(()).
SetUpMediaControls ==
  /\ mcCalls < MaxMcCalls
  /\ mcCalls' = mcCalls + 1
  /\ mcRegs' = IF MediaControlsGuard(mainWindow) THEN PlayerSetUpMediaControls(mcRegs) ELSE mcRegs
  /\ UNCHANGED <<mainWindow, pStatus, pEpisode, pPos, chains, pLock, script, cmdIdx, threads, db, cmdRes,
                 busVars, importVars, dlVars, syncVars, cfgVars>>

\* The environment: the "main" window is closed while the process runs on.
MainWindowClosed ==
  /\ mainWindow
  /\ mainWindow' = FALSE
  /\ UNCHANGED <<mcRegs, mcCalls, pStatus, pEpisode, pPos, chains, pLock, script, cmdIdx, threads, db, cmdRes,
                 busVars, importVars, dlVars, syncVars, cfgVars>>

NextPlayer ==
  \/ SetUpMediaControls
  \/ MainWindowClosed
  \/ IssueCommand
  \/ \E t \in ThreadIds : PlayerStop(t) \/ PlayerStart(t) \/ PlayerAction(t)

(***************************************************************************)
(* Config commands: set_volume, set_access_key, register_device,           *)
(* register_user, set_config, get_config. Volumes are in hundredths        *)
(* (100 == 1.0). Each command is a process with its own program point.     *)
(* `config_wrapper.0.lock().unwrap().clone()` takes the lock, clones and   *)
(* drops the temporary guard in one statement. ConfigWrapper::update and   *)
(* Player::set_volume are not in the source and follow the spec: update    *)
(* takes the lock, replaces the in-memory value (a multi-field struct,     *)
(* written here in two halves), persists it and on failure restores the    *)
(* old value and returns the error; the player clamps to [0.0, 1.0].       *)
(***************************************************************************)
VolumeInputs == {-50, 40, 150}
VolCalls == {"vol1", "vol2"}
CfgProcs == {"vol1", "vol2", "key", "dev", "user", "setcfg"}

\* Inputs of the commands and responses of the backend endpoints.
AccessKeyArg == "k1"
DeviceNameArg == "d1"
CreateDeviceToken == "t1"
CreateUserKey == "u1"
InitialConfig == [volume |-> 100, key |-> "k0", device |-> "d0", token |-> "t0"]
SetConfigArg == [volume |-> 40, key |-> "k2", device |-> "d2", token |-> "t2"]

ClampVolume(v) == IF v < 0 THEN 0 ELSE IF v > 100 THEN 100 ELSE v

otherThanCfg == <<busVars, importVars, dlVars, syncVars, playerVars>>

InitConfig ==
  /\ cfg = InitialConfig
  /\ playerVolume = 100
  /\ cpc = [p \in CfgProcs |-> "idle"]
  /\ carg = [p \in CfgProcs |-> 0]
  /\ clocal = [p \in CfgProcs |-> InitialConfig]
  /\ cres = [p \in CfgProcs |-> "none"]
  /\ cfgLock = "none"
  /\ upOld = InitialConfig
  /\ lastRead = InitialConfig
  /\ readDone = FALSE
  /\ committed = InitialConfig
  /\ lastWriter = "none"

\* Who holds the Config lock once `.lock().unwrap().clone()` has finished:
\* the guard is a temporary dropped at the end of the statement.
ReleaseAfterCloneHeld(p) == p

ReleaseAfterClone(p) == "none"

\* One `let mut config = config_wrapper.0.lock().unwrap().clone();` followed by
\* the field assignments on the clone, then program point `next`.
CloneStep(p, newLocal, next) ==
  /\ cfgLock = "none"
  /\ cfgLock' = ReleaseAfterClone(p)
  /\ clocal' = [clocal EXCEPT ![p] = newLocal]
  /\ cpc' = [cpc EXCEPT ![p] = next]

\* set_volume(volume): clone, config.volume = volume.
SetVolume(p) ==
  /\ cpc[p] = "idle"
  /\ \E v \in VolumeInputs :
       /\ carg' = [carg EXCEPT ![p] = v]
       /\ CloneStep(p, [cfg EXCEPT !.volume = v], "update")
  /\ UNCHANGED <<cfg, playerVolume, cres, upOld, lastRead, readDone, committed, lastWriter, otherThanCfg>>

\* set_access_key(value): clone, config.user_access_key = value.
SetAccessKey ==
  /\ cpc["key"] = "idle"
  /\ CloneStep("key", [cfg EXCEPT !.key = AccessKeyArg], "update")
  /\ UNCHANGED <<cfg, playerVolume, carg, cres, upOld, lastRead, readDone, committed, lastWriter, otherThanCfg>>

\* register_device(device_name): clone, config.device_name = device_name,
\* then endpoints::create_device(&request).await? with the lock released.
RegisterDeviceClone ==
  /\ cpc["dev"] = "idle"
  /\ CloneStep("dev", [cfg EXCEPT !.device = DeviceNameArg], "await_device")
  /\ UNCHANGED <<cfg, playerVolume, carg, cres, upOld, lastRead, readDone, committed, lastWriter, otherThanCfg>>

\* create_device(..).await?: on Ok, config.access_token = response.access_token.
RegisterDeviceAwait ==
  /\ cpc["dev"] = "await_device"
  /\ \E ok \in BOOLEAN :
       IF ok
       THEN /\ clocal' = [clocal EXCEPT !["dev"].token = CreateDeviceToken]
            /\ cpc' = [cpc EXCEPT !["dev"] = "update"]
            /\ UNCHANGED cres
       ELSE /\ cpc' = [cpc EXCEPT !["dev"] = "returned"]
            /\ cres' = [cres EXCEPT !["dev"] = "err"]
            /\ UNCHANGED clocal
  /\ UNCHANGED <<cfg, playerVolume, carg, cfgLock, upOld, lastRead, readDone, committed, lastWriter, otherThanCfg>>

\* register_user: endpoints::create_user().await? before the lock is taken.
RegisterUserAwait ==
  /\ cpc["user"] = "idle"
  /\ \E ok \in BOOLEAN :
       IF ok
       THEN /\ cpc' = [cpc EXCEPT !["user"] = "clone"]
            /\ UNCHANGED cres
       ELSE /\ cpc' = [cpc EXCEPT !["user"] = "returned"]
            /\ cres' = [cres EXCEPT !["user"] = "err"]
  /\ UNCHANGED <<cfg, playerVolume, carg, clocal, cfgLock, upOld, lastRead, readDone, committed, lastWriter, otherThanCfg>>

\* register_user: clone, config.user_access_key = response.access_key.
RegisterUserClone ==
  /\ cpc["user"] = "clone"
  /\ CloneStep("user", [cfg EXCEPT !.key = CreateUserKey], "update")
  /\ UNCHANGED <<cfg, playerVolume, carg, cres, upOld, lastRead, readDone, committed, lastWriter, otherThanCfg>>

\* set_config(new_config): straight to config_wrapper.update(new_config).
SetConfig ==
  /\ cpc["setcfg"] = "idle"
  /\ clocal' = [clocal EXCEPT !["setcfg"] = SetConfigArg]
  /\ cpc' = [cpc EXCEPT !["setcfg"] = "update"]
  /\ UNCHANGED <<cfg, playerVolume, carg, cres, cfgLock, upOld, lastRead, readDone, committed, lastWriter, otherThanCfg>>

\* ConfigWrapper::update, step 1: take the lock.
UpdateLock(p) ==
  /\ cpc[p] = "update"
  /\ cfgLock = "none"
  /\ cfgLock' = p
  /\ upOld' = cfg
  /\ cpc' = [cpc EXCEPT ![p] = "update_w1"]
  /\ UNCHANGED <<cfg, playerVolume, carg, clocal, cres, lastRead, readDone, committed, lastWriter, otherThanCfg>>

UpdateWriteVolumeOnly(p) == [cfg EXCEPT !.volume = clocal[p].volume]

\* ConfigWrapper::update, step 2: first half of the struct written.
UpdateWriteFirst(p) == [cfg EXCEPT !.volume = clocal[p].volume, !.key = clocal[p].key]

UpdateWrite1(p) ==
  /\ cpc[p] = "update_w1"
  /\ cfg' = UpdateWriteFirst(p)
  /\ cpc' = [cpc EXCEPT ![p] = "update_w2"]
  /\ UNCHANGED <<playerVolume, carg, clocal, cres, cfgLock, upOld, lastRead, readDone, committed, lastWriter, otherThanCfg>>

\* ConfigWrapper::update, step 3: second half written and persisted (or the old
\* value restored and the error returned), lock released. The `?` in the
\* command returns the error at once; set_volume goes on to player.set_volume.
UpdateWrite2(p) ==
  /\ cpc[p] = "update_w2"
  /\ \E persistOk \in BOOLEAN :
       IF persistOk
       THEN LET new == [cfg EXCEPT !.device = clocal[p].device, !.token = clocal[p].token]
            IN /\ cfg' = new
               /\ lastWriter' = p
               /\ committed' = clocal[p]
               /\ cpc' = [cpc EXCEPT ![p] = IF p \in VolCalls THEN "apply" ELSE "returned"]
               /\ cres' = IF p \in VolCalls THEN cres ELSE [cres EXCEPT ![p] = "ok"]
       ELSE /\ cfg' = upOld
            /\ cpc' = [cpc EXCEPT ![p] = "returned"]
            /\ cres' = [cres EXCEPT ![p] = "err"]
            /\ UNCHANGED <<lastWriter, committed>>
  /\ cfgLock' = "none"
  /\ UNCHANGED <<playerVolume, carg, clocal, upOld, lastRead, readDone, otherThanCfg>>

\* Player::set_volume clamps to [0.0, 1.0].
PlayerSetVolume(v) == ClampVolume(v)

\* player.set_volume(volume); Ok(()).
ApplyVolume(p) ==
  /\ cpc[p] = "apply"
  /\ playerVolume' = PlayerSetVolume(carg[p])
  /\ cpc' = [cpc EXCEPT ![p] = "returned"]
  /\ cres' = [cres EXCEPT ![p] = "ok"]
  /\ UNCHANGED <<cfg, carg, clocal, cfgLock, upOld, lastRead, readDone, committed, lastWriter, otherThanCfg>>

CanReadIgnoringLock(lock) == TRUE

\* get_config: config_wrapper.0.lock().unwrap().clone() waits for the lock.
CanRead(lock) == lock = "none"

\* lastRead is what the call returns. get_config changes nothing, so one call
\* per run, made at any point of it, stands for every call (readDone).
GetConfig ==
  /\ ~readDone
  /\ CanRead(cfgLock)
  /\ lastRead' = cfg
  /\ readDone' = TRUE
  /\ UNCHANGED <<cfg, playerVolume, cpc, carg, clocal, cres, cfgLock, upOld, committed, lastWriter, otherThanCfg>>

\* The update steps and set_volume's player step of process p.
UpdateSteps(p) == UpdateLock(p) \/ UpdateWrite1(p) \/ UpdateWrite2(p) \/ ApplyVolume(p)

\* set_volume calls only.
NextConfig ==
  \E p \in VolCalls : SetVolume(p) \/ UpdateSteps(p)

\* One call of each config command, concurrent reads by get_config.
NextConfigCmds ==
  \/ SetVolume("vol1")
  \/ SetAccessKey
  \/ RegisterDeviceClone
  \/ RegisterDeviceAwait
  \/ RegisterUserAwait
  \/ RegisterUserClone
  \/ SetConfig
  \/ GetConfig
  \/ \E p \in {"vol1", "key", "dev", "user", "setcfg"} : UpdateSteps(p)

\* set_volume, set_access_key and register_device, each changing its own field.
NextConfigFields ==
  \/ SetVolume("vol1")
  \/ SetAccessKey
  \/ RegisterDeviceClone
  \/ RegisterDeviceAwait
  \/ \E p \in {"vol1", "key", "dev"} : UpdateSteps(p)


(***************************************************************************)
(* Whole-model initial state                                               *)
(***************************************************************************)
Init ==
  /\ events = [q \in Producers |-> <<>>]
  /\ notes = [q \in Producers |-> <<>>]
  /\ InitImport
  /\ dlState \in [EpisodeIds -> {"not_downloaded", "downloaded"}]
  /\ dlTracker = [e \in EpisodeIds |-> "absent"]
  /\ dlEp = [t \in DlTasks |-> 0]
  /\ dlPc = [t \in DlTasks |-> "unused"]
  /\ dlRes = [t \in DlTasks |-> "none"]
  /\ dlPre = [t \in DlTasks |-> "none"]
  /\ dlPolicy \in {"reject", "coalesce"}
  /\ nextDl = 0
  /\ syncPc = [s \in SyncIds |-> "unused"]
  /\ syncPods = [s \in SyncIds |-> <<>>]
  /\ syncIdx = [s \in SyncIds |-> 0]
  /\ nextSync = 0
  /\ InitPlayer
  /\ InitConfig

\* Init with the player fixed to one of its initial states, for the
\* specifications whose actions never touch it.
InitFixedPlayer == Init /\ script = PlaysScript

ImportSpec == InitFixedPlayer /\ [][NextImport]_vars

DownloadSpec == InitFixedPlayer /\ [][NextDownload]_vars

SyncSpec == InitFixedPlayer /\ [][NextSync]_vars

PlayerSpec == Init /\ [][NextPlayer]_vars

ConfigSpec == InitFixedPlayer /\ [][NextConfig]_vars

Next == NextImport \/ NextDownload \/ NextSync \/ NextPlayer \/ NextConfig \/ NextConfigCmds

Spec == Init /\ [][Next]_vars

\* Init with the player and download parts fixed to one of their initial
\* states, for the specifications whose actions never touch them.
InitConfigOnly ==
  /\ Init
  /\ script = PlaysScript
  /\ dlState = [e \in EpisodeIds |-> "not_downloaded"]

ConfigCmdSpec == InitConfigOnly /\ [][NextConfigCmds]_vars

ConfigFieldsSpec == InitConfigOnly /\ [][NextConfigFields]_vars

SyncImportSpec == InitConfigOnly /\ [][NextSync \/ NextImport]_vars

ImportLiveSpec ==
  /\ ImportSpec
  /\ \A i \in ImportIds : WF_vars(DoImportPodcast(i)) /\ WF_vars(ImportEmit(i))

\* Terminal import notifications tagged with identifier i.
ImportNoteCount(i) ==
  LET log == notes[<<"import", i>>]
  IN Cardinality({k \in DOMAIN log :
                    log[k][1] \in {"import-podcast-done", "import-podcast-error"}
                    /\ log[k][2] = i})

\* C1: import_podcast returns its identifier while the detached task is still
\* running; every task emits at most one terminal notification tagged with
\* its identifier (done or error), and every spawned task eventually emits one.
ImportExactlyOneTerminal ==
  /\ [](\A i \in ImportIds : ImportNoteCount(i) <= 1)
  /\ \A i \in ImportIds : (importPc[i] = "running") ~> (ImportNoteCount(i) = 1)

ImportBothOutcomesWitness ==
  \E i, j \in ImportIds :
     /\ notes[<<"import", i>>] = << <<"import-podcast-done", i>> >>
     /\ notes[<<"import", j>>] = << <<"import-podcast-error", j>> >>

\* Terminal failure notifications of download task t (the code emits none).
DownloadFailNoteCount(t) ==
  LET log == notes[<<"download", t>>]
  IN Cardinality({k \in DOMAIN log :
                    log[k][1] = "download-episode-error" /\ log[k][2] = dlEp[t]})

\* C2: every failed detached download (start_download error or Episode(id)
\* publish error) is reported by exactly one terminal failure notification.
DownloadFailureNotified ==
  \A t \in DlTasks :
     (dlPc[t] = "ended" /\ dlRes[t] \in {"err_start", "err_bus"})
        => DownloadFailNoteCount(t) = 1

\* Download task t has just ended with a failure (start_download error or
\* Episode(id) publish error) in this step, and it had started the transfer
\* itself (the episode was not downloaded when it called start_download: a
\* duplicate start rejected or coalesced by start_download's policy owns no
\* download of its own).
FailedDownloadEnds(t) ==
  /\ dlPc[t] # "ended"
  /\ dlPc'[t] = "ended"
  /\ dlRes'[t] \in {"err_start", "err_bus"}
  /\ dlPre[t] = "not_downloaded"

\* C9: when a detached download of episode id fails, at any point, the
\* episode's persisted download state is its pre-download value (never left
\* downloading) and its tracker entry is terminal or absent.
DownloadFailureRollsBack ==
  [][\A t \in DlTasks :
        FailedDownloadEnds(t)
           => /\ dlState'[dlEp[t]] = dlPre[t]
              /\ dlTracker'[dlEp[t]] \in {"absent", "finished", "failed"}]_vars

\* Episode(id) publish calls of download task t.
EpisodeEventCount(t) ==
  LET log == events[<<"download", t>>]
  IN Cardinality({k \in DOMAIN log : log[k] = <<"Episode", dlEp[t]>>})

\* C10: whenever a detached download has ended, by success or failure, it has
\* published Episode(id) for its episode.
DownloadEndPublishesEpisode ==
  \A t \in DlTasks :
     dlPc[t] = "ended" => EpisodeEventCount(t) = 1

\* Terminal sync notifications (success or failure) of sync task s.
SyncNoteCount(s) ==
  LET log == notes[<<"sync", s>>]
  IN Cardinality({k \in DOMAIN log :
                    log[k][1] \in {"sync-podcasts-done", "sync-podcasts-error"}
                    /\ log[k][2] = s})

\* C3: once a detached sync task has ended, whatever failed in it, it has
\* emitted a terminal success or failure notification.
SyncEndsWithTerminal ==
  \A s \in SyncIds : syncPc[s] \in {"done", "panicked"} => SyncNoteCount(s) >= 1

ScriptFinished ==
  /\ cmdIdx > Len(script)
  /\ \A t \in ThreadIds : threads[t].pc \in {"none", "done"}

\* C4: play_episode(42), pause, seek(120), play, in that order, end in
\* Playing episode 42 at 120 whatever the order of the spawned threads.
PauseSeekPlayEndsAt120 ==
  (script = PauseSeekScript /\ ScriptFinished)
     => pStatus = "Playing" /\ pEpisode = 42 /\ pPos = 120

\* C5: at most one decode/output chain at any time, and once every thread of a
\* run of play_episode commands is done the last command's episode plays.
OneChainLastEpisodeWins ==
  /\ chains <= 1
  /\ (script = PlaysScript /\ ScriptFinished)
        => pEpisode = script[Len(script)].ep

\* C6: after any set_volume calls the stored and the applied volume are in
\* [0.0, 1.0], and after a single completed call both equal its clamped input.
VolumeClamped ==
  /\ cfg.volume \in 0..100
  /\ playerVolume \in 0..100
  /\ \A c \in VolCalls :
       (cres[c] = "ok" /\ \A d \in VolCalls \ {c} : cpc[d] = "idle")
          => cfg.volume = ClampVolume(carg[c]) /\ playerVolume = ClampVolume(carg[c])

\* C7: every set_volume call that has returned returned Ok and applied its
\* (clamped) volume to the player.
SetVolumeNeverRejects ==
  \A c \in VolCalls : cpc[c] = "returned" => cres[c] = "ok"

\* The whole configs at a given moment: the one the last successful update
\* stored (the initial one before any), and the new config of every update
\* in the middle of writing it.
WholeConfigs ==
  {committed} \cup {clocal[p] : p \in {q \in CfgProcs : cpc[q] \in {"update_w1", "update_w2"}}}

\* C11: every config get_config returns, even while other commands' updates
\* are in flight, is the whole old or the whole new config, never a mix.
GetConfigSeesWholeConfig ==
  [][(~readDone /\ readDone') => lastRead' \in WholeConfigs]_vars

GetConfigWitness ==
  /\ lastRead = SetConfigArg
  /\ cpc["dev"] = "update_w2"

\* C12: the Config lock is held only inside ConfigWrapper::update (or for the
\* length of one clone statement): never by a command at a network await
\* or between its clone and its update.
ConfigLockOnlyInUpdate ==
  cfgLock = "none" \/ cpc[cfgLock] \in {"update_w1", "update_w2"}

ConfigLockWitness ==
  /\ cpc["dev"] = "await_device"
  /\ cpc["user"] \in {"idle", "clone"}
  /\ cfgLock \in {"key", "vol1", "setcfg"}

\* The Change Bus calls made by one producing task, as <<change, id>>, in order.
ProducerEvents(prod) == events[prod]

RECURSIVE PerPodcastEvents(_)
PerPodcastEvents(pods) ==
  IF pods = <<>> THEN <<>>
  ELSE << <<"Podcast", Head(pods)>>, <<"PodcastEpisodes", Head(pods)>> >>
         \o PerPodcastEvents(Tail(pods))

\* AllPodcasts, then Podcast(id), PodcastEpisodes(id) for each listed podcast.
ExpectedSyncEvents(pods) == << <<"AllPodcasts", 0>> >> \o PerPodcastEvents(pods)

IsPrefix(u, w) == Len(u) <= Len(w) /\ SubSeq(w, 1, Len(u)) = u

\* C14: a sync task's Change Bus events always follow AllPodcasts, then
\* Podcast(id) immediately followed by PodcastEpisodes(id) per podcast, and
\* all of them precede its sync-podcasts-done; an import task's Podcast(id)
\* precedes its import-podcast-done.
ChangeEventsInProducerOrder ==
  /\ \A s \in SyncIds :
       /\ syncPc[s] \notin {"unused", "sync", "list"}
            => IsPrefix(ProducerEvents(<<"sync", s>>), ExpectedSyncEvents(syncPods[s]))
       /\ syncPc[s] = "done"
            => ProducerEvents(<<"sync", s>>) = ExpectedSyncEvents(syncPods[s])
  /\ \A i \in ImportIds :
       (importPc[i] = "finished" /\ importRes[i] = "ok")
          => /\ ProducerEvents(<<"import", i>>) = << <<"Podcast", importPod[i]>> >>
             /\ notes[<<"import", i>>] = << <<"import-podcast-done", i>> >>

ChangeEventsWitness ==
  /\ \E s \in SyncIds : syncPc[s] = "done" /\ Len(syncPods[s]) = 2
  /\ \E i \in ImportIds : importPc[i] = "finished" /\ importRes[i] = "ok"

FieldCmdsReturned == \A p \in {"vol1", "key", "dev"} : cpc[p] = "returned"

\* C15 as stated: once set_volume, set_access_key and register_device have all
\* returned, the config holds every successful command's own change.
NoLostConfigUpdate ==
  FieldCmdsReturned =>
     /\ cres["vol1"] = "ok" => cfg.volume = carg["vol1"]
     /\ cres["key"] = "ok" => cfg.key = AccessKeyArg
     /\ cres["dev"] = "ok" => cfg.device = DeviceNameArg /\ cfg.token = CreateDeviceToken

\* C15 amended: updates are last-writer-wins, not merged: whenever no update is
\* in flight the config is exactly the whole copy the last successful update
\* wrote (its command's clone with its own fields changed).
ConfigLastWriterWins ==
  cfgLock = "none" =>
     cfg = IF lastWriter = "none" THEN InitialConfig ELSE clocal[lastWriter]

\* All three commands succeeded, yet set_access_key's key was overwritten.
LostUpdateWitness ==
  /\ FieldCmdsReturned
  /\ \A p \in {"vol1", "key", "dev"} : cres[p] = "ok"
  /\ cfg.key # AccessKeyArg

\* C16: an issued play_episode(id) whose episode and progress are found
\* returns Ok and spawns its thread with offset 0 if the progress is
\* completed and listened_seconds otherwise; if either lookup fails it
\* returns an error and spawns no thread.
PlayEpisodeStartOffset ==
  \A t \in ThreadIds :
     (t < cmdIdx /\ script[t].cmd = "play_episode")
        => LET d == db[script[t].ep] IN
           IF d.episode /\ d.progress
           THEN /\ cmdRes[t] = "ok"
                /\ threads[t].op = "play_episode"
                /\ threads[t].at = (IF d.completed THEN 0 ELSE d.listened)
           ELSE /\ cmdRes[t] = "err"
                /\ threads[t] = NoThread

PlayEpisodeWitness ==
  /\ script = DbScript /\ cmdIdx = 3
  /\ db[1].episode /\ db[1].progress /\ db[1].completed /\ db[1].listened = 60
  /\ ~db[2].progress /\ cmdRes[2] = "err"

====
